---- MODULE Spec2Model ----
(***************************************************************************)
(* Model of the website documentation tooling:                             *)
(*   autogen/_website/generate_mkdocs.py  (filter_excluded_files)          *)
(*   autogen/_website/utils.py            (copy_only_git_tracked_files)    *)
(*   website/process_api_reference.py     (create_nav_structure,           *)
(*                                         update_nav, main)               *)
(* A Python str is a sequence of one-character strings, so that split,     *)
(* join, startswith and the ordering used by sorted() are computed.        *)
(***************************************************************************)
EXTENDS Integers, Sequences, FiniteSets, TLC

VARIABLES
    \* filter_excluded_files
    files, exclusion_list, website_dir, filtered, fpc,
    \* create_nav_structure
    paths, nav, npc,
    \* update_nav
    mint_json, mint_before, new_nav_pages, nav_log, upc,
    \* copy_only_git_tracked_files
    tracked, on_disk, dst_files, remaining, skipped, copy_err, cpc,
    \* main of process_api_reference.py
    pc, exit_status, api_dir, md_files, mdx_files, mint_file, at_start, printed

filterVars == <<files, exclusion_list, website_dir, filtered, fpc>>
navVars    == <<paths, nav, npc>>
updateVars == <<mint_json, mint_before, new_nav_pages, nav_log, upc>>
copyVars   == <<tracked, on_disk, dst_files, remaining, skipped, copy_err, cpc>>
mainVars   == <<pc, exit_status, api_dir, md_files, mdx_files, mint_file, at_start, printed>>
vars == <<filterVars, navVars, updateVars, copyVars, mainVars>>

-----------------------------------------------------------------------------
(* Python str primitives *)

\* ord() of the characters the model uses
Ord(c) ==
    CASE c = "." -> 46
      [] c = "/" -> 47
      [] c = "a" -> 97
      [] c = "b" -> 98
      [] c = "c" -> 99
      [] c = "d" -> 100
      [] c = "e" -> 101
      [] c = "f" -> 102
      [] c = "n" -> 110
      [] c = "o" -> 111
      [] c = "r" -> 114
      [] c = "s" -> 115

\* s < t for Python str: lexicographic by code point, a proper prefix is smaller
RECURSIVE StrLess(_, _)
StrLess(s, t) ==
    IF t = <<>> THEN FALSE
    ELSE IF s = <<>> THEN TRUE
    ELSE IF Head(s) = Head(t) THEN StrLess(Tail(s), Tail(t))
    ELSE Ord(Head(s)) < Ord(Head(t))

StrLeq(s, t) == s = t \/ StrLess(s, t)

\* mutant: the whole string is compared instead of its prefix
StartsWithWhole(s, p) == s = p

\* s.startswith(p)
StartsWith(s, p) ==
    /\ Len(p) <= Len(s)
    /\ SubSeq(s, 1, Len(p)) = p

\* sep.join(parts)
RECURSIVE Join(_, _)
Join(parts, sep) ==
    IF parts = <<>> THEN <<>>
    ELSE IF Len(parts) = 1 THEN parts[1]
    ELSE parts[1] \o sep \o Join(Tail(parts), sep)

\* s.split("/")
RECURSIVE Split(_)
Split(s) ==
    IF \A i \in 1..Len(s) : s[i] # "/" THEN <<s>>
    ELSE LET i == CHOOSE k \in 1..Len(s) :
                    /\ s[k] = "/"
                    /\ \A j \in 1..(k - 1) : s[j] # "/"
         IN <<SubSeq(s, 1, i - 1)>> \o Split(SubSeq(s, i + 1, Len(s)))

\* sorted(list of str)
RECURSIVE InsertSorted(_, _)
InsertSorted(x, s) ==
    IF s = <<>> THEN <<x>>
    ELSE IF StrLess(x, Head(s)) THEN <<x>> \o s
    ELSE <<Head(s)>> \o InsertSorted(x, Tail(s))

\* mutant: the pages are left in the order of arrival
sorted_as_given(s) == s

\* mutant: sorted(set(pages)), which drops repeated pages
RECURSIVE sorted_distinct(_)
sorted_distinct(s) ==
    IF s = <<>> THEN <<>>
    ELSE LET rest == sorted_distinct(SubSeq(s, 1, Len(s) - 1))
         IN IF \E i \in 1..Len(rest) : rest[i] = s[Len(s)]
            THEN rest
            ELSE InsertSorted(s[Len(s)], rest)

RECURSIVE sorted(_)
sorted(s) ==
    IF s = <<>> THEN <<>> ELSE InsertSorted(s[Len(s)], sorted(SubSeq(s, 1, Len(s) - 1)))

\* the keys of a dict in the order of sorted(d.items()) (keys are distinct)
RECURSIVE SortedKeys(_)
SortedKeys(S) ==
    IF S = {} THEN <<>>
    ELSE LET m == CHOOSE x \in S : \A y \in S : StrLeq(x, y)
         IN <<m>> \o SortedKeys(S \ {m})

Range(s) == {s[i] : i \in 1..Len(s)}

\* the lists of at most n elements of S
ListsUpTo(S, n) == UNION {[1..k -> S] : k \in 0..n}

-----------------------------------------------------------------------------
(* create_nav_structure *)

SLASH == <<"/">>
DOT   == <<".">>
DocsReference == <<"d","o","c","s","/","r","e","f","e","r","e","n","c","e","/">>

\* mutant: the parent groups are left out of the reference
add_prefix_flat(path, parent_groups) == DocsReference \o path

add_prefix(path, parent_groups) ==
    DocsReference \o Join(parent_groups \o <<path>>, SLASH)

\* the loop of create_nav_structure over paths: the dict `groups` (first
\* segment -> subpaths, in order of arrival) and the list `pages`
RECURSIVE Partition(_, _)
Partition(ps, parent_groups) ==
    IF ps = <<>> THEN [groups |-> <<>>, pages |-> <<>>]
    ELSE LET acc   == Partition(SubSeq(ps, 1, Len(ps) - 1), parent_groups)
             path  == ps[Len(ps)]
             parts == Split(path)
         IN IF Len(parts) = 1
            THEN [acc EXCEPT !.pages = Append(@, add_prefix(path, parent_groups))]
            ELSE LET group   == parts[1]
                     subpath == Join(Tail(parts), SLASH)
                     old     == acc.groups
                 IN [acc EXCEPT !.groups =
                        IF \E i \in 1..Len(old) : old[i].key = group
                        THEN [i \in 1..Len(old) |->
                                 IF old[i].key = group
                                 THEN [old[i] EXCEPT !.val = Append(@, subpath)]
                                 ELSE old[i]]
                        ELSE Append(old, [key |-> group, val |-> <<subpath>>])]

\* mutant: the group is named by its own segment alone
GroupNameRaw(parent_groups, group) == group

GroupName(parent_groups, group) ==
    IF parent_groups # <<>> THEN Join(parent_groups \o <<group>>, DOT) ELSE group

RECURSIVE create_nav_structure(_, _)
create_nav_structure(ps, parent_groups) ==
    LET part   == Partition(ps, parent_groups)
        items  == part.groups
        keys   == SortedKeys({items[i].key : i \in 1..Len(items)})
        val(k) == (CHOOSE it \in Range(items) : it.key = k).val
        sorted_groups ==
            [i \in 1..Len(keys) |->
                [kind  |-> "group",
                 group |-> GroupName(parent_groups, keys[i]),
                 pages |-> create_nav_structure(val(keys[i]), parent_groups \o <<keys[i]>>)]]
        pageRefs == sorted(part.pages)
        sorted_pages == [i \in 1..Len(pageRefs) |-> [kind |-> "page", ref |-> pageRefs[i]]]
    IN sorted_groups \o sorted_pages

\* the page leaves of a navigation structure, in output order
RECURSIVE Leaves(_)
Leaves(nodes) ==
    IF nodes = <<>> THEN <<>>
    ELSE LET n == Head(nodes)
         IN (IF n.kind = "page" THEN <<n.ref>> ELSE Leaves(n.pages)) \o Leaves(Tail(nodes))

\* the flat path list of a navigation structure: each leaf without the prefix
Flatten(nodes) ==
    LET ls == Leaves(nodes)
    IN [i \in 1..Len(ls) |-> SubSeq(ls[i], Len(DocsReference) + 1, Len(ls[i]))]

MaxPaths == 3

SegA  == <<"a">>
SegB  == <<"b">>
SegC  == <<"c">>
SegD  == <<"d">>
SegAB == <<"a","b">>
SegEmpty == <<>>

\* the path strings the builder is run on (segment lists joined with "/")
NavPaths ==
    { Join(p, SLASH) : p \in
        { <<SegA>>, <<SegD>>, <<SegAB>>, <<SegA, SegB>>, <<SegA, SegC>>,
          <<SegB, SegA>>, <<SegA, SegB, SegC>>, <<SegA, SegB, SegA>>,
          <<SegAB, SegA>>, <<SegEmpty>>, <<SegA, SegEmpty>>,
          <<SegA, SegEmpty, SegB>> } }

NavInit ==
    /\ paths \in ListsUpTo(NavPaths, MaxPaths)
    /\ nav = <<>>
    /\ npc = "start"

\* nav_structure = create_nav_structure(mdx_files)
Build ==
    /\ npc \in {"start", "reflat"}
    /\ nav' = create_nav_structure(paths, <<>>)
    /\ npc' = IF npc = "start" THEN "built" ELSE "rebuilt"
    /\ UNCHANGED paths
    /\ UNCHANGED <<filterVars, updateVars, copyVars, mainVars>>

\* the output is flattened back into a path list
Reflatten ==
    /\ npc = "built"
    /\ paths' = Flatten(nav)
    /\ npc' = "reflat"
    /\ UNCHANGED nav
    /\ UNCHANGED <<filterVars, updateVars, copyVars, mainVars>>

NavNext == Build \/ Reflatten

NavIdle ==
    /\ paths = <<>>
    /\ nav = <<>>
    /\ npc = "idle"

-----------------------------------------------------------------------------
(* filter_excluded_files *)

\* a pathlib.Path is the sequence of its segments

\* file.relative_to(website_dir): raises ValueError unless file is under it
relative_to(file, base) ==
    IF Len(base) <= Len(file) /\ SubSeq(file, 1, Len(base)) = base
    THEN [raised |-> FALSE, path |-> SubSeq(file, Len(base) + 1, Len(file))]
    ELSE [raised |-> TRUE, path |-> <<>>]

\* str(path) of a relative path; the empty relative path prints as "."
PathStr(p) == IF p = <<>> THEN DOT ELSE Join(p, SLASH)

\* any(str(file.relative_to(website_dir)).startswith(excl) for excl in exclusion_list):
\* the generator evaluates relative_to once per exclusion, and stops at the first hit
RECURSIVE AnyExcluded(_, _, _)
AnyExcluded(file, excls, base) ==
    IF excls = <<>> THEN "False"
    ELSE LET rel == relative_to(file, base)
         IN IF rel.raised THEN "ValueError"
            ELSE IF StartsWith(PathStr(rel.path), Head(excls)) THEN "True"
            ELSE AnyExcluded(file, Tail(excls), base)

RECURSIVE filter_excluded_files(_, _, _)
filter_excluded_files(fs, excls, base) ==
    IF fs = <<>> THEN [raised |-> FALSE, value |-> <<>>]
    ELSE LET before == filter_excluded_files(SubSeq(fs, 1, Len(fs) - 1), excls, base)
             file   == fs[Len(fs)]
             hit    == AnyExcluded(file, excls, base)
         IN IF before.raised THEN before
            ELSE IF hit = "ValueError" THEN [raised |-> TRUE, value |-> <<>>]
            ELSE IF hit = "True" THEN before
            ELSE [before EXCEPT !.value = Append(@, file)]

MaxFiles == 2
MaxExclusions == 2

DirWebsite == <<"w">>
DirDocs    == <<"d">>
DirHome    == <<"h">>
DirHomeX   == <<"h","x">>
DirBlogs   == <<"b">>
DirOther   == <<"o">>

FilePaths ==
    { <<DirWebsite, DirDocs, DirHome>>, <<DirWebsite, DirDocs, DirHomeX>>,
      <<DirWebsite, DirDocs, DirBlogs, DirHome>>, <<DirWebsite, DirDocs>>,
      <<DirWebsite, DirHome>>, <<DirOther, DirDocs, DirHome>> }

BaseDirs == { <<DirWebsite>>, <<DirWebsite, DirDocs>> }

ExclusionStrings ==
    { <<"d","/","h">>, <<"d","/","b">>, <<"h">>, <<>> }

FilterInit ==
    /\ files \in ListsUpTo(FilePaths, MaxFiles)
    /\ exclusion_list \in ListsUpTo(ExclusionStrings, MaxExclusions)
    /\ website_dir \in BaseDirs
    /\ filtered = [raised |-> FALSE, value |-> <<>>]
    /\ fpc = "start"

\* filtered_files = filter_excluded_files(files_to_copy, exclusion_list, website_dir)
Filter ==
    /\ fpc = "start"
    /\ filtered' = filter_excluded_files(files, exclusion_list, website_dir)
    /\ fpc' = IF filtered'.raised THEN "raised" ELSE "returned"
    /\ UNCHANGED <<files, exclusion_list, website_dir>>
    /\ UNCHANGED <<navVars, updateVars, copyVars, mainVars>>

FilterNext == Filter

FilterIdle ==
    /\ files = <<>>
    /\ exclusion_list = <<>>
    /\ website_dir = <<>>
    /\ filtered = [raised |-> FALSE, value |-> <<>>]
    /\ fpc = "idle"

-----------------------------------------------------------------------------
(* update_nav *)

APIReference == "API Reference"

Page(ref) == [kind |-> "page", ref |-> ref]

\* json.dump raises TypeError on a value that is no JSON value
RECURSIVE Serializable(_)
Serializable(nodes) ==
    \A i \in 1..Len(nodes) :
        /\ nodes[i].kind # "object"
        /\ nodes[i].kind = "group" => Serializable(nodes[i].pages)

\* section.get("group") == "API Reference"
IsAPIReference(section) ==
    IF "group" \in DOMAIN section THEN section["group"] = APIReference ELSE FALSE

\* the index of the section at which the loop over navigation breaks, 0 if none
FirstMatch(navigation) ==
    IF \E i \in 1..Len(navigation) : IsAPIReference(navigation[i])
    THEN CHOOSE i \in 1..Len(navigation) :
            /\ IsAPIReference(navigation[i])
            /\ \A j \in 1..(i - 1) : ~IsAPIReference(navigation[j])
    ELSE 0

\* mutant: the section is replaced by one that holds the pages alone
SetPagesOnly(section, new) == [pages |-> new]

\* section["pages"] = new_nav_pages
SetPages(section, new) ==
    [k \in DOMAIN section \cup {"pages"} |-> IF k = "pages" THEN new ELSE section[k]]

\* for section in mint_config["navigation"]: ... break
ReplacePages(config, new) ==
    LET navigation == config["navigation"]
        m == FirstMatch(navigation)
    IN [config EXCEPT !["navigation"] =
            [i \in 1..Len(navigation) |->
                IF i = m THEN SetPages(navigation[i], new) ELSE navigation[i]]]

ErrNotJson  == "Error: mint.json is not valid JSON"
ErrUpdating == "Error updating mint.json"

Truncated == [kind |-> "truncated"]

\* update_nav on a file with content `content`. `io` is what the filesystem does:
\* "ok", "read_fails" (open for reading raises), "open_w_fails" (open for writing
\* raises before the file is truncated), "write_fails" (a write raises after it).
\* A file is [kind |-> "json", config |-> the object its text denotes],
\* [kind |-> "garbage"] (text that is no JSON) or Truncated (emptied by
\* open(.., "w"), with at most a part of the new text written).
update_nav(content, new, io) ==
    IF io = "read_fails" THEN [file |-> content, log |-> ErrUpdating]
    ELSE IF content.kind # "json" THEN [file |-> content, log |-> ErrNotJson]
    ELSE IF "navigation" \notin DOMAIN content.config
         THEN [file |-> content, log |-> ErrUpdating]
    ELSE LET mint_config == ReplacePages(content.config, new)
             dumpable == FirstMatch(content.config["navigation"]) = 0 \/ Serializable(new)
         IN IF io = "open_w_fails" THEN [file |-> content, log |-> ErrUpdating]
            ELSE IF ~dumpable \/ io = "write_fails"
                 THEN [file |-> Truncated, log |-> ErrUpdating]
            ELSE [file |-> [kind |-> "json", config |-> mint_config], log |-> "none"]

MaxSections == 3

OldPages   == <<Page(<<"o","l","d">>)>>
OtherPages == <<Page(<<"p">>)>>

Sections ==
    { [group |-> APIReference, pages |-> OldPages],
      [group |-> APIReference, pages |-> OldPages, icon |-> "book"],
      [group |-> APIReference],
      [group |-> "Other", pages |-> OtherPages],
      [pages |-> OtherPages] }

MintConfigs ==
    {[name |-> "AG2"]} \cup
    {[name |-> "AG2", navigation |-> n] : n \in ListsUpTo(Sections, MaxSections)}

MintFiles == {[kind |-> "garbage"]} \cup {[kind |-> "json", config |-> c] : c \in MintConfigs}

NewPages ==
    { <<>>,
      <<Page(<<"n","1">>), Page(<<"n","2">>)>>,
      create_nav_structure(<<Join(<<SegA, SegB>>, SLASH), SegD>>, <<>>),
      <<Page(<<"n","1">>), [kind |-> "object"]>> }

IOOutcomes == {"ok", "read_fails", "open_w_fails", "write_fails"}

UpdateInit ==
    /\ mint_json \in MintFiles
    /\ mint_before = mint_json
    /\ new_nav_pages = <<>>
    /\ nav_log = "none"
    /\ upc = "start"

\* update_nav(mint_json_path, nav_structure)
UpdateNav ==
    /\ upc = "start"
    /\ \E new \in NewPages, io \in IOOutcomes :
          LET r == update_nav(mint_json, new, io)
          IN /\ new_nav_pages' = new
             /\ mint_json' = r.file
             /\ nav_log' = r.log
    /\ mint_before' = mint_json
    /\ upc' = "returned"
    /\ UNCHANGED <<filterVars, navVars, copyVars, mainVars>>

UpdateNext == UpdateNav

UpdateIdle ==
    /\ mint_json = [kind |-> "garbage"]
    /\ mint_before = [kind |-> "garbage"]
    /\ new_nav_pages = <<>>
    /\ nav_log = "none"
    /\ upc = "idle"

-----------------------------------------------------------------------------
(* copy_only_git_tracked_files *)

MaxTracked == 3

\* the paths `git ls-files` can list, by number
RepoFiles == 1..MaxTracked

\* mutant: the loop does not test src.is_file()
is_file_any(src, disk) == TRUE

\* src.is_file()
is_file(src, disk) == src \in disk

CopyInit ==
    /\ tracked \in SUBSET RepoFiles
    /\ on_disk \in SUBSET RepoFiles
    /\ dst_files = {}
    /\ remaining = {}
    /\ skipped = {}
    /\ copy_err = "none"
    /\ cpc = "start"

\* get_git_tracked_files_in_directory: subprocess.run(..., check=True)
ListTracked ==
    /\ cpc = "start"
    /\ \/ /\ remaining' = tracked
          /\ cpc' = "loop"
          /\ UNCHANGED copy_err
       \/ /\ copy_err' = "CalledProcessError"
          /\ cpc' = "raised"
          /\ UNCHANGED remaining
    /\ UNCHANGED <<tracked, on_disk, dst_files, skipped>>
    /\ UNCHANGED <<filterVars, navVars, updateVars, mainVars>>

\* one iteration of the loop over the set of tracked files (a set: any order)
CopyOne ==
    /\ cpc = "loop"
    /\ \E src \in remaining :
          /\ remaining' = remaining \ {src}
          /\ IF is_file(src, on_disk)
             THEN IF src \notin on_disk
                  THEN \* shutil.copy2 of a path that is no file
                       /\ copy_err' = "FileNotFoundError"
                       /\ cpc' = "raised"
                       /\ UNCHANGED <<dst_files, skipped>>
                  ELSE \/ /\ dst_files' = dst_files \cup {src}
                          /\ UNCHANGED <<copy_err, cpc, skipped>>
                       \/ \* mkdir or copy2 fails (PermissionError, ...)
                          /\ copy_err' = "OSError"
                          /\ cpc' = "raised"
                          /\ UNCHANGED <<dst_files, skipped>>
             ELSE /\ skipped' = skipped \cup {src}
                  /\ UNCHANGED <<dst_files, copy_err, cpc>>
    /\ UNCHANGED <<tracked, on_disk>>
    /\ UNCHANGED <<filterVars, navVars, updateVars, mainVars>>

\* the loop is exhausted: the function returns None
CopyReturn ==
    /\ cpc = "loop"
    /\ remaining = {}
    /\ cpc' = "returned"
    /\ UNCHANGED <<tracked, on_disk, dst_files, remaining, skipped, copy_err>>
    /\ UNCHANGED <<filterVars, navVars, updateVars, mainVars>>

CopyNext == ListTracked \/ CopyOne \/ CopyReturn

CopyIdle ==
    /\ tracked = {}
    /\ on_disk = {}
    /\ dst_files = {}
    /\ remaining = {}
    /\ skipped = {}
    /\ copy_err = "none"
    /\ cpc = "idle"

-----------------------------------------------------------------------------
(* main of process_api_reference.py *)

\* the files of the API directory, by their path without the extension
DocNames ==
    { Join(<<SegA, SegB>>, SLASH), Join(<<SegA, SegC>>, SLASH), SegD }

Missing == [kind |-> "missing"]

MainMintFiles ==
    { Missing, [kind |-> "garbage"],
      [kind |-> "json", config |-> [name |-> "AG2"]],
      [kind |-> "json", config |->
          [name |-> "AG2",
           navigation |-> << [group |-> "Other", pages |-> OtherPages],
                             [group |-> APIReference, pages |-> OldPages] >>]] }

\* the orders in which rglob can list the files of S
Listings(S) == {l \in [1..Cardinality(S) -> S] : Range(l) = S}

MsgRunning   == "Running pydoc-markdown..."
MsgRan       == "Successfully ran pydoc-markdown"
MsgToolError == "Error running pydoc-markdown"
MsgNoTool    == "pydoc-markdown not found"
MsgNoDir     == "Directory not found"
MsgConverting == "Converting MD files to MDX..."
MsgConverted == "Converted"
MsgNoMint    == "File not found"
MsgComplete  == "API reference processing complete!"

MainInit ==
    /\ pc = "run_pydoc_markdown"
    /\ exit_status = "running"
    /\ api_dir \in BOOLEAN
    /\ md_files \in (IF api_dir THEN SUBSET DocNames ELSE {{}})
    /\ mdx_files \in (IF api_dir THEN SUBSET DocNames ELSE {{}})
    /\ mint_file \in MainMintFiles
    /\ at_start = [md |-> md_files, mdx |-> mdx_files, mint |-> mint_file]
    /\ printed = <<>>

\* mutant: the except branches print the diagnostic and do not call sys.exit(1)
RunPydocMarkdownNoExit ==
    /\ pc = "run_pydoc_markdown"
    /\ \E msg \in {MsgRan, MsgToolError, MsgNoTool} :
          printed' = printed \o <<MsgRunning, msg>>
    /\ pc' = "convert_md_to_mdx"
    /\ UNCHANGED <<exit_status, api_dir, md_files, mdx_files, mint_file, at_start>>
    /\ UNCHANGED <<filterVars, navVars, updateVars, copyVars>>

\* run_pydoc_markdown(args.config): the tool runs and writes .md files, or it
\* exits non-zero (CalledProcessError), or it is not installed (FileNotFoundError)
RunPydocMarkdown ==
    /\ pc = "run_pydoc_markdown"
    /\ \/ \E gen \in SUBSET DocNames :
             /\ md_files' = md_files \cup gen
             /\ api_dir' = (api_dir \/ gen # {})
             /\ printed' = printed \o <<MsgRunning, MsgRan>>
             /\ pc' = "convert_md_to_mdx"
             /\ UNCHANGED exit_status
       \/ \E gen \in SUBSET DocNames :
             /\ md_files' = md_files \cup gen
             /\ api_dir' = (api_dir \/ gen # {})
             /\ printed' = printed \o <<MsgRunning, MsgToolError>>
             /\ exit_status' = "1"
             /\ pc' = "exited"
       \/ /\ printed' = printed \o <<MsgRunning, MsgNoTool>>
          /\ exit_status' = "1"
          /\ pc' = "exited"
          /\ UNCHANGED <<md_files, api_dir>>
    /\ UNCHANGED <<mdx_files, mint_file, at_start>>
    /\ UNCHANGED <<filterVars, navVars, updateVars, copyVars>>

\* convert_md_to_mdx: the directory does not exist
ConvertNoDir ==
    /\ pc = "convert_md_to_mdx"
    /\ ~api_dir
    /\ printed' = printed \o <<MsgConverting, MsgNoDir>>
    /\ exit_status' = "1"
    /\ pc' = "exited"
    /\ UNCHANGED <<api_dir, md_files, mdx_files, mint_file, at_start>>
    /\ UNCHANGED <<filterVars, navVars, updateVars, copyVars>>

\* convert_md_to_mdx: entering the loop over input_dir.rglob("*.md")
ConvertStart ==
    /\ pc = "convert_md_to_mdx"
    /\ api_dir
    /\ printed' = Append(printed, MsgConverting)
    /\ pc' = "convert_loop"
    /\ UNCHANGED <<exit_status, api_dir, md_files, mdx_files, mint_file, at_start>>
    /\ UNCHANGED <<filterVars, navVars, updateVars, copyVars>>

\* one iteration: read the .md, write the .mdx, unlink the .md; an exception of
\* read_text or unlink is not caught and ends the process with status 1
ConvertOne ==
    /\ pc = "convert_loop"
    /\ \E f \in md_files :
          \/ /\ mdx_files' = mdx_files \cup {f}
             /\ md_files' = md_files \ {f}
             /\ printed' = Append(printed, MsgConverted)
             /\ UNCHANGED <<pc, exit_status>>
          \/ /\ pc' = "exited"
             /\ exit_status' = "1"
             /\ UNCHANGED <<md_files, mdx_files, printed>>
          \/ /\ mdx_files' = mdx_files \cup {f}
             /\ pc' = "exited"
             /\ exit_status' = "1"
             /\ UNCHANGED <<md_files, printed>>
    /\ UNCHANGED <<api_dir, mint_file, at_start>>
    /\ UNCHANGED <<filterVars, navVars, updateVars, copyVars>>

\* the loop is exhausted
ConvertDone ==
    /\ pc = "convert_loop"
    /\ md_files = {}
    /\ pc' = "update_mint_json"
    /\ UNCHANGED <<exit_status, api_dir, md_files, mdx_files, mint_file, at_start, printed>>
    /\ UNCHANGED <<filterVars, navVars, updateVars, copyVars>>

\* update_mint_json_with_api_nav: mint.json does not exist
UpdateNoMint ==
    /\ pc = "update_mint_json"
    /\ mint_file = Missing
    /\ printed' = Append(printed, MsgNoMint)
    /\ exit_status' = "1"
    /\ pc' = "exited"
    /\ UNCHANGED <<api_dir, md_files, mdx_files, mint_file, at_start>>
    /\ UNCHANGED <<filterVars, navVars, updateVars, copyVars>>

\* update_mint_json_with_api_nav: get_mdx_files, create_nav_structure, update_nav
UpdateMintJson ==
    /\ pc = "update_mint_json"
    /\ mint_file # Missing
    /\ \E mdx \in Listings(mdx_files), io \in IOOutcomes :
          LET nav_structure == create_nav_structure(mdx, <<>>)
              r == update_nav(mint_file, nav_structure, io)
          IN /\ mint_file' = r.file
             /\ printed' = IF r.log = "none" THEN printed ELSE Append(printed, r.log)
    /\ pc' = "complete"
    /\ UNCHANGED <<exit_status, api_dir, md_files, mdx_files, at_start>>
    /\ UNCHANGED <<filterVars, navVars, updateVars, copyVars>>

\* print("API reference processing complete!") and the end of main
Complete ==
    /\ pc = "complete"
    /\ printed' = Append(printed, MsgComplete)
    /\ exit_status' = "0"
    /\ pc' = "exited"
    /\ UNCHANGED <<api_dir, md_files, mdx_files, mint_file, at_start>>
    /\ UNCHANGED <<filterVars, navVars, updateVars, copyVars>>

MainNext ==
    RunPydocMarkdown \/ ConvertNoDir \/ ConvertStart \/ ConvertOne \/ ConvertDone
        \/ UpdateNoMint \/ UpdateMintJson \/ Complete

MainIdle ==
    /\ pc = "idle"
    /\ exit_status = "running"
    /\ api_dir = FALSE
    /\ md_files = {}
    /\ mdx_files = {}
    /\ mint_file = Missing
    /\ at_start = [md |-> {}, mdx |-> {}, mint |-> Missing]
    /\ printed = <<>>

-----------------------------------------------------------------------------
(* Specifications: one per program *)

FilterSpecInit == FilterInit /\ NavIdle /\ UpdateIdle /\ CopyIdle /\ MainIdle
NavSpecInit    == FilterIdle /\ NavInit /\ UpdateIdle /\ CopyIdle /\ MainIdle
UpdateSpecInit == FilterIdle /\ NavIdle /\ UpdateInit /\ CopyIdle /\ MainIdle
CopySpecInit   == FilterIdle /\ NavIdle /\ UpdateIdle /\ CopyInit /\ MainIdle
MainSpecInit   == FilterIdle /\ NavIdle /\ UpdateIdle /\ CopyIdle /\ MainInit

FilterSpec == FilterSpecInit /\ [][FilterNext]_vars
NavSpec    == NavSpecInit /\ [][NavNext]_vars
UpdateSpec == UpdateSpecInit /\ [][UpdateNext]_vars
CopySpec   == CopySpecInit /\ [][CopyNext]_vars
MainSpec   == MainSpecInit /\ [][MainNext]_vars

Init == FilterInit /\ NavInit /\ UpdateInit /\ CopyInit /\ MainInit
Next == FilterNext \/ NavNext \/ UpdateNext \/ CopyNext \/ MainNext
Spec == Init /\ [][Next]_vars

-----------------------------------------------------------------------------
(* Properties of filter_excluded_files *)

UnderBase(file) == ~relative_to(file, website_dir).raised

\* p is an initial segment of s
IsPrefix(p, s) == \E k \in 0..Len(s) : SubSeq(s, 1, k) = p

\* the relative string form of a file under website_dir starts with an exclusion
Excluded(file) ==
    \E i \in 1..Len(exclusion_list) :
        IsPrefix(exclusion_list[i], PathStr(relative_to(file, website_dir).path))

NotExcluded(file) == ~Excluded(file)

\* C1: when every file is under the base directory, filter_excluded_files returns
\* exactly the files whose relative string form starts with no exclusion prefix,
\* in their original order and with duplicates kept.
C1_FilterExact ==
    (fpc # "start" /\ \A i \in 1..Len(files) : UnderBase(files[i])) =>
        /\ fpc = "returned"
        /\ filtered.value = SelectSeq(files, NotExcluded)

\* a list of two files under the base, of which the first is excluded by the
\* second exclusion and the second is kept
C1_Witness ==
    /\ fpc = "returned"
    /\ Len(files) = 2
    /\ Len(exclusion_list) = 2
    /\ \A i \in 1..2 : UnderBase(files[i])
    /\ exclusion_list[2] # <<>>
    /\ IsPrefix(exclusion_list[2], PathStr(relative_to(files[1], website_dir).path))
    /\ exclusion_list[2] # PathStr(relative_to(files[1], website_dir).path)
    /\ filtered.value = <<files[2]>>

\* C6: a file list with a path outside the base directory makes
\* filter_excluded_files raise, whatever the exclusion list (the empty one included).
C6_OutsideBaseRaises ==
    (fpc # "start" /\ \E i \in 1..Len(files) : ~UnderBase(files[i])) => filtered.raised

-----------------------------------------------------------------------------
(* Properties of create_nav_structure *)

Built == npc \in {"built", "rebuilt"}

\* the raw segment name of a group node, given the qualified name of its parent
RawName(node, isTop, parentName) ==
    IF isTop THEN node.group
    ELSE SubSeq(node.group, Len(parentName) + 2, Len(node.group))

RECURSIVE Ordered(_, _, _)
Ordered(nodes, isTop, parentName) ==
    /\ \A i, j \in 1..Len(nodes) :
          i < j =>
             /\ nodes[i].kind = "page" => nodes[j].kind = "page"
             /\ (nodes[i].kind = "group" /\ nodes[j].kind = "group") =>
                   StrLeq(RawName(nodes[i], isTop, parentName),
                          RawName(nodes[j], isTop, parentName))
             /\ (nodes[i].kind = "page" /\ nodes[j].kind = "page") =>
                   StrLeq(nodes[i].ref, nodes[j].ref)
    /\ \A i \in 1..Len(nodes) :
          nodes[i].kind = "group" => Ordered(nodes[i].pages, FALSE, nodes[i].group)

\* C4: at every level of the output of create_nav_structure the groups come
\* before the pages, the groups ascend by raw segment name and the pages ascend
\* by full reference string.
C4_GroupsFirstSorted == Built => Ordered(nav, TRUE, <<>>)

\* two groups and a page at the top level, given in the opposite order
C4_Witness ==
    /\ npc = "built"
    /\ Len(paths) = 3
    /\ Len(Split(paths[1])) = 1
    /\ Len(Split(paths[2])) > 1
    /\ Len(Split(paths[3])) > 1
    /\ StrLess(Split(paths[3])[1], Split(paths[2])[1])
    /\ Len(nav) = 3
    /\ nav[1].kind = "group"
    /\ nav[2].kind = "group"
    /\ nav[3].kind = "page"

Count(x, s) == Cardinality({i \in 1..Len(s) : s[i] = x})

\* C5: the page leaves of create_nav_structure(paths) are, as a multiset, the
\* entries of paths each with the prefix "docs/reference/"; none is dropped or
\* duplicated, and the empty list gives the empty result.
C5_LeavesAreInputs ==
    Built =>
        LET leaves   == Leaves(nav)
            expected == [i \in 1..Len(paths) |-> DocsReference \o paths[i]]
        IN /\ Len(leaves) = Len(expected)
           /\ \A x \in Range(leaves) \cup Range(expected) :
                 Count(x, leaves) = Count(x, expected)
           /\ paths = <<>> => nav = <<>>

\* a nested path listed twice next to another path
C5_Witness ==
    /\ npc = "built"
    /\ Len(paths) = 3
    /\ paths[1] = paths[3]
    /\ paths[2] # paths[1]
    /\ Len(Split(paths[1])) = 3
    /\ Len(Leaves(nav)) = 3

\* the segments occurring in the input paths
InputSegments == UNION {Range(Split(paths[i])) : i \in 1..Len(paths)}

RECURSIVE Qualified(_, _)
Qualified(nodes, parents) ==
    \A i \in 1..Len(nodes) :
        nodes[i].kind = "group" =>
            \E seg \in InputSegments :
                LET here   == parents \o <<seg>>
                    leaves == Leaves(nodes[i].pages)
                IN /\ nodes[i].group = Join(here, DOT)
                   /\ leaves # <<>>
                   /\ \A k \in 1..Len(leaves) :
                         StartsWith(leaves[k], DocsReference \o Join(here, SLASH) \o SLASH)
                   /\ Qualified(nodes[i].pages, here)

ScenarioPaths == <<Join(<<SegA, SegB>>, SLASH), Join(<<SegA, SegC>>, SLASH), SegD>>

ScenarioNav ==
    << [kind  |-> "group",
        group |-> SegA,
        pages |-> << Page(DocsReference \o Join(<<SegA, SegB>>, SLASH)),
                     Page(DocsReference \o Join(<<SegA, SegC>>, SLASH)) >>],
       Page(DocsReference \o SegD) >>

\* C9: the name of every group node is the dot-joined sequence of the segments
\* of its enclosing groups followed by its own segment (its own segment alone at
\* the top level), the segments being those under which its pages are filed; and
\* ["a/b", "a/c", "d"] gives the group a with its two pages, then the page d.
C9_QualifiedGroupNames ==
    Built =>
        /\ Qualified(nav, <<>>)
        /\ paths = ScenarioPaths => nav = ScenarioNav

\* a group nested in a group: a/b/c gives the group "a.b" inside the group "a"
C9_Witness ==
    /\ npc = "built"
    /\ Len(nav) >= 1
    /\ nav[1].kind = "group"
    /\ nav[1].group = SegA
    /\ nav[1].pages[1].kind = "group"
    /\ nav[1].pages[1].group = <<"a", ".", "b">>

\* C10: building again from the flattened output gives the same structure.
C10_RebuildIdempotent == [][npc = "reflat" => nav' = nav]_vars

\* the structure was rebuilt from its own flattening, and has groups and pages
C10_Witness ==
    /\ npc = "rebuilt"
    /\ Len(nav) >= 2
    /\ nav[1].kind = "group"
    /\ Len(nav[1].pages) >= 2
    /\ nav[Len(nav)].kind = "page"

-----------------------------------------------------------------------------
(* Properties of update_nav *)

\* the sections named "API Reference" of a navigation list
NamedAPIReference(navigation) ==
    {i \in 1..Len(navigation) :
        "group" \in DOMAIN navigation[i] /\ navigation[i]["group"] = APIReference}

\* i is the first section named "API Reference"
IsTarget(navigation, i) ==
    /\ i \in NamedAPIReference(navigation)
    /\ \A j \in NamedAPIReference(navigation) : i <= j

Wrote == upc = "returned" /\ nav_log = "none"

\* C2: the document update_nav writes differs from the one it read only in the
\* pages field of the first section named "API Reference"; all other sections
\* (later ones of that name too), all other fields and the order of sections are
\* as read, and without such a section the document is written back as read.
C2_OnlyFirstSectionPages ==
    Wrote =>
        /\ mint_before.kind = "json"
        /\ mint_json.kind = "json"
        /\ LET old == mint_before.config
               new == mint_json.config
           IN /\ DOMAIN new = DOMAIN old
              /\ \A k \in DOMAIN old \ {"navigation"} : new[k] = old[k]
              /\ Len(new["navigation"]) = Len(old["navigation"])
              /\ \A i \in 1..Len(old["navigation"]) :
                    LET o == old["navigation"][i]
                        n == new["navigation"][i]
                    IN IF IsTarget(old["navigation"], i)
                       THEN /\ DOMAIN n = DOMAIN o \cup {"pages"}
                            /\ \A k \in DOMAIN o \ {"pages"} : n[k] = o[k]
                            /\ n["pages"] = new_nav_pages
                       ELSE n = o
              /\ NamedAPIReference(old["navigation"]) = {} => new = old

\* a document with another section first and two sections named "API Reference",
\* the first of them with a further field, was rewritten with new pages
C2_Witness ==
    /\ Wrote
    /\ new_nav_pages # <<>>
    /\ Len(mint_before.config["navigation"]) = 3
    /\ NamedAPIReference(mint_before.config["navigation"]) = {2, 3}
    /\ "icon" \in DOMAIN mint_before.config["navigation"][2]
    /\ mint_json.config["navigation"][2]["pages"] = new_nav_pages
    /\ mint_json.config["navigation"][3] = mint_before.config["navigation"][3]

\* C3: whenever update_nav returns after reporting an error, the file holds what
\* it held before the call.
C3_ErrorLeavesFile ==
    (upc = "returned" /\ nav_log # "none") => mint_json = mint_before

-----------------------------------------------------------------------------
(* Properties of copy_only_git_tracked_files *)

\* the listed paths the loop has taken so far (none before or without the listing)
Reached ==
    IF cpc = "start" \/ copy_err = "CalledProcessError" THEN {} ELSE tracked \ remaining

\* C7 as stated: once a listed path that is no file has been reached, the copy
\* has ended with an error.
C7_MissingAborts ==
    (\E src \in Reached : src \notin on_disk) => cpc = "raised"

\* C7 as amended: a listed path that is no file is skipped without an error; the
\* loop goes on to the other paths, and a call that returns has copied exactly
\* the listed paths that are files.
C7_MissingSkipped ==
    /\ copy_err \in {"none", "CalledProcessError", "OSError"}
    /\ skipped = Reached \ on_disk
    /\ cpc \in {"loop", "returned"} => dst_files = Reached \cap on_disk
    /\ cpc = "returned" =>
          /\ dst_files = tracked \cap on_disk
          /\ copy_err = "none"

\* the call returned with a path skipped and another copied
C7_Witness ==
    /\ cpc = "returned"
    /\ skipped # {}
    /\ dst_files # {}
    /\ tracked \ on_disk # {}

-----------------------------------------------------------------------------
(* Properties of main of process_api_reference.py *)

Printed(msg) == \E i \in 1..Len(printed) : printed[i] = msg

ToolFailed == Printed(MsgToolError) \/ Printed(MsgNoTool)

\* C8: the stages run in the order tool, conversion, navigation update, and a
\* stage that fails ends the run: after a failed or missing tool the process has
\* exited with a non-zero status, no .md file was converted or deleted,
\* mint.json is as it was, and the completion message is not printed.
C8_StagesInOrder ==
    /\ ToolFailed =>
          /\ pc = "exited"
          /\ exit_status = "1"
          /\ ~Printed(MsgConverting)
          /\ ~Printed(MsgConverted)
          /\ mdx_files = at_start.mdx
          /\ at_start.md \subseteq md_files
          /\ mint_file = at_start.mint
          /\ ~Printed(MsgComplete)
    /\ (Printed(MsgConverting) \/ pc \in {"convert_md_to_mdx", "convert_loop"}) =>
          Printed(MsgRan)
    /\ (mdx_files # at_start.mdx \/ Printed(MsgConverted)) => Printed(MsgConverting)
    /\ (pc \in {"update_mint_json", "complete"} \/ mint_file # at_start.mint
            \/ Printed(MsgComplete)) =>
          /\ Printed(MsgConverting)
          /\ md_files = {}
    /\ exit_status = "1" =>
          /\ mint_file = at_start.mint
          /\ ~Printed(MsgComplete)
    /\ Printed(MsgComplete) => exit_status = "0"

\* the tool failed in a directory that held .md files, next to a valid mint.json
C8_Witness ==
    /\ pc = "exited"
    /\ Printed(MsgToolError)
    /\ md_files # {}
    /\ at_start.md # {}
    /\ mint_file.kind = "json"

====
